---- MODULE Spec2Model ----
(***************************************************************************)
(* Model of instprofile (src/instprofile/__init__.py): the hysteresis     *)
(* peak detector peakdet, the per-peak Gaussian fitting driver find_fit   *)
(* and the profile builder inst_profile.                                  *)
(*                                                                         *)
(* Numbers.  A float is a record [k, v]: k = "fin" with v the value in    *)
(* thousandths, k = "inf" with v = 1 or -1, or k = "nan".  Comparisons    *)
(* and arithmetic follow IEEE-754 as numpy applies them.  Samples,        *)
(* positions and thresholds are whole numbers, so peakdet's arithmetic    *)
(* (comparisons, mx - delta, mn + delta) is exact.                        *)
(*                                                                         *)
(* Indices.  The loop counter i is the source's 0-based index; sample i   *)
(* of the source is y_vector[i + 1] here.                                 *)
(***************************************************************************)
EXTENDS Integers, Sequences, FiniteSets

VARIABLES
    entry,        \* the function the caller invoked
    y_vector,     \* argument: the ordinates
    x_arg,        \* argument: the abscissae, or None
    delta,        \* argument: the threshold
    upper_lim,    \* argument of inst_profile, or None
    pc,           \* position of the call
    x_vector,     \* peakdet: the abscissae in use (line 61-62)
    i,            \* peakdet: loop index
    mn, mx, mnpos, mxpos, lookformax,   \* peakdet: trackers and mode
    maxtab, mintab,                     \* peakdet: committed extrema
    mnidx, mxidx, \* history: sample index at which mn / mx was taken
    mxfrom,       \* history: sample index of the last reset of mx
    mnfrom,       \* history: sample index of the last reset of mn
    maxlog, minlog,   \* history: per committed extremum, idx / at / from
    means_found, peaks_found,   \* find_fit: unpacked maxima
    calls,        \* find_fit: the guesses handed to fit_gauss, in order
    values_fit,   \* find_fit: the fitted rows
    kept,         \* inst_profile: the rows of values_fit the masks let through
    profile       \* inst_profile: the returned table

vars == << entry, y_vector, x_arg, delta, upper_lim, pc, x_vector, i,
           mn, mx, mnpos, mxpos, lookformax, maxtab, mintab,
           mnidx, mxidx, mxfrom, mnfrom, maxlog, minlog,
           means_found, peaks_found, calls, values_fit, kept, profile >>

(***************************************************************************)
(* Bounds of the model.                                                    *)
(***************************************************************************)
\* longest signal of a direct peakdet call
MaxLen == 5
\* longest signal of a find_fit / inst_profile call
PipeLen == 4
\* samples of a direct peakdet call are 0..MaxY
MaxY == 3
\* valid thresholds are 1..MaxDelta
MaxDelta == 2

(***************************************************************************)
(* Floats.                                                                 *)
(***************************************************************************)
F(n) ==
    [k |-> "fin", v |-> 1000 * n]

Milli(m) ==
    [k |-> "fin", v |-> m]

NaN ==
    [k |-> "nan", v |-> 0]

PInf ==
    [k |-> "inf", v |-> 1]

NInf ==
    [k |-> "inf", v |-> -1]

\* a < b
FLt(a, b) ==
    CASE a.k = "nan" \/ b.k = "nan" -> FALSE
      [] a.k = b.k                  -> a.v < b.v
      [] a.k = "inf"                -> a.v < 0
      [] OTHER                      -> b.v > 0

\* a > b
FGt(a, b) ==
    FLt(b, a)

\* a <= b
FLe(a, b) ==
    CASE a.k = "nan" \/ b.k = "nan" -> FALSE
      [] a.k = b.k                  -> a.v <= b.v
      [] a.k = "inf"                -> a.v < 0
      [] OTHER                      -> b.v > 0

FNeg(a) ==
    [k |-> a.k, v |-> 0 - a.v]

\* a + b
FAdd(a, b) ==
    CASE a.k = "nan" \/ b.k = "nan"   -> NaN
      [] a.k = "fin" /\ b.k = "fin"   -> Milli(a.v + b.v)
      [] a.k = "inf" /\ b.k = "inf"   -> IF a.v = b.v THEN a ELSE NaN
      [] a.k = "inf"                  -> a
      [] OTHER                        -> b

\* a - b
FSub(a, b) ==
    FAdd(a, FNeg(b))

Abs(n) ==
    IF n < 0 THEN 0 - n ELSE n

Sign(n) ==
    IF n > 0 THEN 1 ELSE IF n < 0 THEN -1 ELSE 0

(***************************************************************************)
(* Arguments.                                                              *)
(***************************************************************************)
None ==
    [given |-> FALSE, v |-> << >>]

NoLimit ==
    [given |-> FALSE, v |-> NaN]

\* a strictly increasing x-axis of m samples
Ramp(m) ==
    [given |-> TRUE, v |-> [k \in 1..m |-> 2 * k]]

\* a non-decreasing x-axis of m samples in which neighbours may coincide
Paired(m) ==
    [given |-> TRUE, v |-> [k \in 1..m |-> 2 + (k \div 2)]]

Signals(maxlen, maxy) ==
    UNION { [1..n -> 0..maxy] : n \in 1..maxlen }

\* the signals of a find_fit / inst_profile call: a zero baseline with
\* samples that stand above every valid threshold
PipeSignals(maxlen) ==
    UNION { [1..n -> { 0, MaxDelta + 1 }] : n \in 1..maxlen }

\* scalar thresholds (valid and not) and one that is not a scalar
Deltas ==
    { [scalar |-> TRUE, v |-> d] : d \in -1..MaxDelta }
        \cup { [scalar |-> FALSE, v |-> 1] }

XArgs(n) ==
    { None, Ramp(n), Paired(n), Ramp(n + 1) }

PipeXArgs(n) ==
    { Ramp(n), Ramp(n + 1) }

UpperLims ==
    { NoLimit, [given |-> TRUE, v |-> Milli(2354)], [given |-> TRUE, v |-> F(3)] }

\* what the least-squares solver may hand back for one peak: a finite
\* stand-in for an arbitrary float in each parameter
FitAmps ==
    { NaN, F(-1), F(0), F(1), Milli(2507), Milli(3760) }

FitMeans ==
    { NaN, F(-1), F(0), F(1), F(25), F(50), F(75), F(99) }

FitSigmas ==
    { NaN, F(-1), F(0), Milli(100), F(1), Milli(1500), F(2) }

\* the parameter vectors the tests assert leastsq returns: (1, 50, 0.1) in
\* test_fit_gauss, and the rows (0.5, 25, 2), (1, 75, 1.5) of test_find_fit
\* before line 173 rescales them
TestFits ==
    { << F(1), F(50), Milli(100) >>,
      << Milli(2507), F(25), F(2) >>,
      << Milli(3760), F(75), Milli(1500) >> }

\* the vectors leastsq may end on for one guess: the tests' fits, fits that
\* stay at the guessed mean with any amplitude and stdev, fits that wander
\* to any mean, and the all-NaN vector of a failed fit
FitOutcomes(guess) ==
    TestFits
        \cup { << a, guess[2], sigma >> : a \in FitAmps, sigma \in FitSigmas }
        \cup { << a, mu, sigma >> : a \in { F(-1), F(1) }, mu \in FitMeans,
                                   sigma \in { F(-1), F(1), Milli(1500) } }
        \cup { << NaN, NaN, NaN >> }

(***************************************************************************)
(* peakdet (lines 26-102).                                                 *)
(***************************************************************************)
\* line 61-62: x_vector defaults to arange(len(y_vector))
XDefault(y, xa) ==
    IF xa.given THEN xa.v ELSE [k \in 1..Len(y) |-> k - 1]

\* line 66: len(y_vector) != len(x_vector)
LengthMismatch(y, x) ==
    Len(y) # Len(x)

\* line 69: not np.isscalar(delta)
NotScalar(d) ==
    ~d.scalar

\* faulty variant of the guard: delta < 0, letting delta = 0 through
C2_DeltaNonPositive_Mutant(d) ==
    d.v < 0

\* line 72: delta <= 0
DeltaNonPositive(d) ==
    d.v <= 0

\* lines 66-73: the three sys.exit guards
InvalidInput(y, x, d) ==
    \/ LengthMismatch(y, x)
    \/ NotScalar(d)
    \/ DeltaNonPositive(d)

\* line 82: this > mx
NewMax(this, m) ==
    FGt(this, m)

\* line 85: this < mn
NewMin(this, m) ==
    FLt(this, m)

\* faulty variant: sign slip, this < mx + delta
C1_DropsBelow_Mutant(this, m, d) ==
    FLt(this, FAdd(m, F(d.v)))

\* faulty variant: the threshold is forgotten, this < mx
C9_DropsBelow_Mutant(this, m, d) ==
    FLt(this, m)

\* line 90: this < mx - delta
DropsBelow(this, m, d) ==
    FLt(this, FSub(m, F(d.v)))

\* line 96: this > mn + delta
RisesAbove(this, m, d) ==
    FGt(this, FAdd(m, F(d.v)))

\* faulty variant: insert at the front instead of append
C8_Commit_Mutant(tab, pos, val) ==
    << <<pos, val>> >> \o tab

\* lines 91, 97: tab.append((pos, val))
Commit(tab, pos, val) ==
    Append(tab, <<pos, val>>)

\* faulty variant: the minimum tracker is not restarted
C10_MinAfterMax_Mutant(this, xi, idx, m, mpos, midx) ==
    [val |-> m, pos |-> mpos, idx |-> midx]

\* lines 92-93: on committing a maximum the minimum tracker restarts at the
\* current sample
MinAfterMax(this, xi, idx, m, mpos, midx) ==
    [val |-> this, pos |-> xi, idx |-> idx]

\* faulty variant: the maximum tracker is not restarted
C3_MaxAfterMin_Mutant(this, xi, idx, m, mpos, midx) ==
    [val |-> m, pos |-> mpos, idx |-> midx]

\* lines 98-99: on committing a minimum the maximum tracker restarts at the
\* current sample
MaxAfterMin(this, xi, idx, m, mpos, midx) ==
    [val |-> this, pos |-> xi, idx |-> idx]

\* lines 58-78: argument checks and initialisation
PeakdetEntry ==
    /\ pc = "peakdet"
    /\ x_vector' = XDefault(y_vector, x_arg)
    /\ maxtab' = << >>
    /\ mintab' = << >>
    /\ IF InvalidInput(y_vector, x_vector', delta)
          THEN /\ pc' = "exit"
               /\ UNCHANGED << mn, mx, mnpos, mxpos, lookformax >>
          ELSE /\ pc' = "scan"
               /\ mn' = PInf
               /\ mx' = NInf
               /\ mnpos' = NaN
               /\ mxpos' = NaN
               /\ lookformax' = TRUE
    /\ UNCHANGED << entry, y_vector, x_arg, delta, upper_lim, i,
                    mnidx, mxidx, mxfrom, mnfrom, maxlog, minlog,
                    means_found, peaks_found, calls, values_fit, kept, profile >>

\* lines 80-100: one iteration of the scan
PeakdetStep ==
    /\ pc = "scan"
    /\ i < Len(y_vector)
    /\ LET this == F(y_vector[i + 1])
           xi   == F(x_vector[i + 1])
           \* lines 82-87
           upmx == NewMax(this, mx)
           upmn == NewMin(this, mn)
           mx1  == IF upmx THEN [val |-> this, pos |-> xi, idx |-> i]
                           ELSE [val |-> mx, pos |-> mxpos, idx |-> mxidx]
           mn1  == IF upmn THEN [val |-> this, pos |-> xi, idx |-> i]
                           ELSE [val |-> mn, pos |-> mnpos, idx |-> mnidx]
           \* lines 89-100
           cmax == lookformax /\ DropsBelow(this, mx1.val, delta)
           cmin == ~lookformax /\ RisesAbove(this, mn1.val, delta)
           mx2  == IF cmin
                      THEN MaxAfterMin(this, xi, i, mx1.val, mx1.pos, mx1.idx)
                      ELSE mx1
           mn2  == IF cmax
                      THEN MinAfterMax(this, xi, i, mn1.val, mn1.pos, mn1.idx)
                      ELSE mn1
       IN  /\ mx' = mx2.val
           /\ mxpos' = mx2.pos
           /\ mxidx' = mx2.idx
           /\ mn' = mn2.val
           /\ mnpos' = mn2.pos
           /\ mnidx' = mn2.idx
           /\ maxtab' = IF cmax THEN Commit(maxtab, mx1.pos, mx1.val) ELSE maxtab
           /\ mintab' = IF cmin THEN Commit(mintab, mn1.pos, mn1.val) ELSE mintab
           /\ lookformax' = IF cmax THEN FALSE ELSE IF cmin THEN TRUE ELSE lookformax
           /\ maxlog' = IF cmax
                           THEN Append(maxlog, [idx |-> mx1.idx, at |-> i, from |-> mxfrom])
                           ELSE maxlog
           /\ minlog' = IF cmin
                           THEN Append(minlog, [idx |-> mn1.idx, at |-> i, from |-> mnfrom])
                           ELSE minlog
           /\ mxfrom' = IF cmin THEN i ELSE mxfrom
           /\ mnfrom' = IF cmax THEN i ELSE mnfrom
    /\ i' = i + 1
    /\ UNCHANGED << entry, y_vector, x_arg, delta, upper_lim, pc, x_vector,
                    means_found, peaks_found, calls, values_fit, kept, profile >>

\* line 102: return np.array(maxtab), np.array(mintab)
PeakdetReturn ==
    /\ pc = "scan"
    /\ i = Len(y_vector)
    /\ pc' = IF entry = "peakdet" THEN "done" ELSE "unpack"
    /\ UNCHANGED << entry, y_vector, x_arg, delta, upper_lim, x_vector, i,
                    mn, mx, mnpos, mxpos, lookformax, maxtab, mintab,
                    mnidx, mxidx, mxfrom, mnfrom, maxlog, minlog,
                    means_found, peaks_found, calls, values_fit, kept, profile >>

(***************************************************************************)
(* find_fit (lines 137-175) and fit_gauss (lines 105-134).                 *)
(***************************************************************************)
\* line 168: the guess [peaks_found[i], means_found[i], 0.1]
Guess(peaks, means, k) ==
    << peaks[k], means[k], Milli(100) >>

\* line 173: a * (1 / sqrt(2 * pi * sigma ** 2)), with 1/sqrt(2 pi) = 0.399
Rescale(a, s) ==
    CASE a.k = "nan" \/ s.k = "nan" -> NaN
      [] s.k = "inf"                -> IF a.k = "inf" THEN NaN ELSE F(0)
      [] s.v = 0                    -> IF a.k = "fin" /\ a.v = 0
                                          THEN NaN
                                          ELSE [k |-> "inf", v |-> Sign(a.v)]
      [] a.k = "inf"                -> a
      [] OTHER                      -> Milli((399 * a.v) \div Abs(s.v))

\* line 163: means_found, peaks_found = peakdet(...)[0].T
\* an empty maxima array has shape (0,) and cannot be unpacked into two
FindFitUnpack ==
    /\ pc = "unpack"
    /\ IF Len(maxtab) = 0
          THEN /\ pc' = "ValueError"
               /\ UNCHANGED << means_found, peaks_found >>
          ELSE /\ pc' = "fit"
               /\ means_found' = [k \in 1..Len(maxtab) |-> maxtab[k][1]]
               /\ peaks_found' = [k \in 1..Len(maxtab) |-> maxtab[k][2]]
    /\ UNCHANGED << entry, y_vector, x_arg, delta, upper_lim, x_vector, i,
                    mn, mx, mnpos, mxpos, lookformax, maxtab, mintab,
                    mnidx, mxidx, mxfrom, mnfrom, maxlog, minlog,
                    calls, values_fit, kept, profile >>

\* line 127: leastsq refuses more parameters than residuals (one residual
\* per sample) with a TypeError
TooFewResiduals(x, guess) ==
    Len(guess) > Len(x)

\* lines 167-169 and 105-134: one call of fit_gauss; leastsq raises, or
\* returns whatever parameter vector it ended on
FitGauss ==
    /\ pc = "fit"
    /\ Len(values_fit) < Len(means_found)
    /\ LET guess == Guess(peaks_found, means_found, Len(values_fit) + 1)
       IN  /\ calls' = Append(calls,
                              [x |-> x_arg.v, y |-> y_vector, guess |-> guess])
           /\ IF TooFewResiduals(x_arg.v, guess)
                 THEN /\ pc' = "TypeError"
                      /\ UNCHANGED values_fit
                 ELSE /\ pc' = pc
                      /\ \E out \in FitOutcomes(guess) :
                            values_fit' = Append(values_fit, out)
    /\ UNCHANGED << entry, y_vector, x_arg, delta, upper_lim, x_vector, i,
                    mn, mx, mnpos, mxpos, lookformax, maxtab, mintab,
                    mnidx, mxidx, mxfrom, mnfrom, maxlog, minlog,
                    means_found, peaks_found, kept, profile >>

\* lines 173-175: the amplitude column becomes the peak height; return
FindFitReturn ==
    /\ pc = "fit"
    /\ Len(values_fit) = Len(means_found)
    /\ values_fit' = [k \in 1..Len(values_fit) |->
                        << Rescale(values_fit[k][1], values_fit[k][3]),
                           values_fit[k][2], values_fit[k][3] >>]
    /\ pc' = IF entry = "find_fit" THEN "done" ELSE "profile"
    /\ UNCHANGED << entry, y_vector, x_arg, delta, upper_lim, x_vector, i,
                    mn, mx, mnpos, mxpos, lookformax, maxtab, mintab,
                    mnidx, mxidx, mxfrom, mnfrom, maxlog, minlog,
                    means_found, peaks_found, calls, kept, profile >>

(***************************************************************************)
(* fwhm (lines 178-199) and inst_profile (lines 202-255).                  *)
(***************************************************************************)
\* 2.35482 * v rounded down to a whole number, for v in thousandths; the
\* product is taken in two parts to stay within the machine integers
TimesFwhmFactor(v) ==
    LET q == v \div 1000
        r == v % 1000
        A == 235482 * q
    IN  (A \div 100) + ((1000 * (A % 100) + 235482 * r) \div 100000)

\* line 199: 2 * sqrt(2 * log(2)) * stdev, with 2 sqrt(2 ln 2) = 2.35482;
\* the result is the code's, cut down to the thousandth, so that it
\* compares with 0 and with a limit in whole thousandths as the code's does
fwhm(stdev) ==
    IF stdev.k = "fin" THEN Milli(TimesFwhmFactor(stdev.v)) ELSE stdev

\* lines 241-242: the row (abscissa, instrumental profile) of one fit
ProfileRow(fit) ==
    << fit[2], fwhm(fit[3]) >>

\* faulty variant: fwhm >= 0 admitted
C4_Positive_Mutant(row) ==
    FGt(row[1], F(0)) /\ FLe(F(0), row[2])

\* faulty variant: wavelength >= 0 admitted
C5_Positive_Mutant(row) ==
    FLe(F(0), row[1]) /\ FGt(row[2], F(0))

\* line 246: (inst_profile[:,0] > 0) & (inst_profile[:,1] > 0)
Positive(row) ==
    FGt(row[1], F(0)) /\ FGt(row[2], F(0))

\* faulty variant: the comparison is turned round, fwhm > upper_lim admitted
C6_UnderLimit_Mutant(row, lim) ==
    FGt(row[2], lim.v)

\* line 251: inst_profile[:,1] < upper_lim
UnderLimit(row, lim) ==
    FLt(row[2], lim.v)

\* line 250: isinstance(upper_lim, (int, float))
LimitGiven(lim) ==
    lim.given

\* lines 248, 252: boolean-mask indexing; the indices, in order, whose flag
\* is set
RECURSIVE Mask(_, _)
Mask(flags, idxs) ==
    IF idxs = << >>
       THEN << >>
       ELSE (IF flags[Head(idxs)] THEN << Head(idxs) >> ELSE << >>)
                \o Mask(flags, Tail(idxs))

\* lines 236-255
InstProfile ==
    /\ pc = "profile"
    /\ LET rows == [k \in 1..Len(values_fit) |-> ProfileRow(values_fit[k])]
           cond_neg == [k \in 1..Len(rows) |-> Positive(rows[k])]
           cond == [k \in 1..Len(rows) |-> UnderLimit(rows[k], upper_lim)]
           pos  == Mask(cond_neg, [k \in 1..Len(rows) |-> k])
           fin  == IF LimitGiven(upper_lim) THEN Mask(cond, pos) ELSE pos
       IN  /\ kept' = fin
           /\ profile' = [j \in 1..Len(fin) |-> rows[fin[j]]]
    /\ pc' = "done"
    /\ UNCHANGED << entry, y_vector, x_arg, delta, upper_lim, x_vector, i,
                    mn, mx, mnpos, mxpos, lookformax, maxtab, mintab,
                    mnidx, mxidx, mxfrom, mnfrom, maxlog, minlog,
                    means_found, peaks_found, calls, values_fit >>

(***************************************************************************)
(* Specifications.                                                         *)
(***************************************************************************)
\* the locals before the call has run
Fresh ==
    /\ pc = "peakdet"
    /\ x_vector = << >>
    /\ i = 0
    /\ mn = NaN /\ mx = NaN /\ mnpos = NaN /\ mxpos = NaN
    /\ lookformax = TRUE
    /\ maxtab = << >> /\ mintab = << >>
    /\ mnidx = -1 /\ mxidx = -1 /\ mxfrom = 0 /\ mnfrom = 0
    /\ maxlog = << >> /\ minlog = << >>
    /\ means_found = << >> /\ peaks_found = << >>
    /\ calls = << >> /\ values_fit = << >>
    /\ kept = << >> /\ profile = << >>

\* a call of find_fit, of inst_profile or of peakdet with an explicit x
Init ==
    /\ entry \in { "peakdet", "find_fit", "inst_profile" }
    /\ y_vector \in PipeSignals(PipeLen)
    /\ x_arg \in PipeXArgs(Len(y_vector))
    /\ delta \in Deltas
    /\ upper_lim \in IF entry = "inst_profile" THEN UpperLims ELSE { NoLimit }
    /\ Fresh

Next ==
    \/ PeakdetEntry
    \/ PeakdetStep
    \/ PeakdetReturn
    \/ FindFitUnpack
    \/ FitGauss
    \/ FindFitReturn
    \/ InstProfile

Spec ==
    Init /\ [][Next]_vars

\* a direct call of peakdet
InitPeakdet ==
    /\ entry = "peakdet"
    /\ y_vector \in Signals(MaxLen, MaxY)
    /\ x_arg \in XArgs(Len(y_vector))
    /\ delta \in Deltas
    /\ upper_lim = NoLimit
    /\ Fresh

NextPeakdet ==
    \/ PeakdetEntry
    \/ PeakdetStep
    \/ PeakdetReturn

SpecPeakdet ==
    InitPeakdet /\ [][NextPeakdet]_vars

(***************************************************************************)
(* Properties.                                                             *)
(***************************************************************************)
\* the j-th smallest element of a set of indices
Nth(S, j) ==
    CHOOSE k \in S : Cardinality({ m \in S : m < k }) = j - 1

\* the sample (position, value) at 0-based index idx
SampleAt(idx) ==
    << F(x_vector[idx + 1]), F(y_vector[idx + 1]) >>

\* C1: every committed maximum was taken from a sample index strictly
\* smaller than the index at which it was committed, hence strictly smaller
\* than the last index n-1: the last sample is never reported as a maximum.
C1_LastSampleNeverMax ==
    /\ Len(maxlog) = Len(maxtab)
    /\ \A k \in 1..Len(maxtab) :
          /\ maxlog[k].idx >= 0
          /\ maxlog[k].idx < maxlog[k].at
          /\ maxlog[k].at <= Len(y_vector) - 1
          /\ maxlog[k].idx < Len(y_vector) - 1
          /\ maxtab[k] = SampleAt(maxlog[k].idx)

\* the scan is over, a maximum was reported, and the last sample is strictly
\* the largest of the signal
C1_Witness ==
    /\ pc = "done"
    /\ Len(maxtab) >= 1
    /\ \A k \in 1..(Len(y_vector) - 1) : y_vector[k] < y_vector[Len(y_vector)]

\* C2: a call whose x-axis has another length than y, or whose delta is not
\* a scalar or is <= 0, exits before any sample is scanned: no extremum is
\* committed, fit_gauss is never called and no table is returned; and the
\* call exits for no other reason.
C2_InvalidInputAborts ==
    LET bad == \/ x_arg.given /\ Len(x_arg.v) # Len(y_vector)
               \/ ~delta.scalar
               \/ delta.v <= 0
    IN  /\ bad => /\ pc \in { "peakdet", "exit" }
                  /\ i = 0
                  /\ maxtab = << >> /\ mintab = << >>
                  /\ calls = << >> /\ values_fit = << >>
                  /\ profile = << >>
        /\ pc = "exit" => bad

\* inst_profile has exited on a threshold of 0 although the axes agree
C2_Witness ==
    /\ pc = "exit"
    /\ entry = "inst_profile"
    /\ Len(x_arg.v) = Len(y_vector)
    /\ delta.scalar
    /\ delta.v = 0

\* the samples of the signal that stand out of the zero baseline
BumpCentres ==
    { k \in 1..Len(y_vector) : y_vector[k] # 0 }

\* a zero baseline carrying one or two bumps, each higher than delta, with a
\* baseline sample between two bumps and none at the final sample
WellSeparatedBumps ==
    /\ Cardinality(BumpCentres) \in { 1, 2 }
    /\ \A c \in BumpCentres : y_vector[c] > delta.v /\ c # Len(y_vector)
    /\ \A c, d \in BumpCentres : c < d => d - c >= 2

\* C3: on a zero baseline carrying K = 1 or 2 well-separated bumps peakdet
\* returns exactly K maxima, left to right, the k-th being (x, height) of the
\* k-th bump's centre.
C3_BumpsDetected ==
    (pc = "done" /\ WellSeparatedBumps) =>
        /\ Len(maxtab) = Cardinality(BumpCentres)
        /\ \A j \in 1..Len(maxtab) :
              maxtab[j] = << F(x_vector[Nth(BumpCentres, j)]),
                             F(y_vector[Nth(BumpCentres, j)]) >>

\* two bumps of different heights, the first at the first sample
C3_Witness ==
    /\ pc = "done"
    /\ WellSeparatedBumps
    /\ Cardinality(BumpCentres) = 2
    /\ 1 \in BumpCentres
    /\ y_vector[Nth(BumpCentres, 2)] < y_vector[1]

\* inst_profile has returned
ProfileReturned ==
    pc = "done" /\ entry = "inst_profile"

\* C4 (as claimed): every emitted point comes from a fit with stdev > 0 and
\* amplitude > 0; a fit with stdev <= 0 or amplitude <= 0 is not emitted.
C4_AcceptedFitsPositiveAmplitude ==
    ProfileReturned =>
        \A j \in 1..Len(kept) :
            /\ FGt(values_fit[kept[j]][3], F(0))
            /\ FGt(values_fit[kept[j]][1], F(0))

\* C4 (amended): every emitted point comes from a fit with stdev > 0 and
\* mean > 0; a fit with stdev <= 0 or mean <= 0 (or NaN) is not emitted.
\* The amplitude is not examined: a fit with mean > 0 and stdev > 0 whose
\* fwhm is below the limit, when one is supplied, is emitted whatever its
\* amplitude.
C4_AcceptedFitsPositiveStdevMean ==
    ProfileReturned =>
        /\ Len(profile) = Len(kept)
        /\ \A j \in 1..Len(kept) :
              /\ kept[j] \in 1..Len(values_fit)
              /\ profile[j][1] = values_fit[kept[j]][2]
              /\ FGt(values_fit[kept[j]][3], F(0))
              /\ FGt(values_fit[kept[j]][2], F(0))
        /\ \A k \in 1..Len(values_fit) :
              ( /\ FGt(values_fit[k][3], F(0))
                /\ FGt(values_fit[k][2], F(0))
                /\ upper_lim.given => FLt(fwhm(values_fit[k][3]), upper_lim.v) )
                  => \E j \in 1..Len(kept) : kept[j] = k

\* two fits, the first with stdev <= 0 dropped, the second emitted although
\* its amplitude is negative
C4_Witness ==
    /\ ProfileReturned
    /\ Len(values_fit) = 2
    /\ FLe(values_fit[1][3], F(0))
    /\ kept = << 2 >>
    /\ FLt(values_fit[2][1], F(0))

\* smallest and largest abscissa of the signal
XMin ==
    CHOOSE a \in { x_vector[k] : k \in 1..Len(x_vector) } :
        \A k \in 1..Len(x_vector) : a <= x_vector[k]

XMax ==
    CHOOSE a \in { x_vector[k] : k \in 1..Len(x_vector) } :
        \A k \in 1..Len(x_vector) : a >= x_vector[k]

\* C5 (as claimed): every emitted wavelength lies within the x-range of the
\* signal, min(x) <= wavelength <= max(x).
C5_WavelengthInXRange ==
    ProfileReturned =>
        \A j \in 1..Len(profile) :
            /\ FLe(F(XMin), profile[j][1])
            /\ FLe(profile[j][1], F(XMax))

\* C5 (amended): every emitted wavelength is the mean the solver returned
\* for its peak and is strictly positive; nothing confines it to the x-range.
C5_WavelengthPositive ==
    ProfileReturned =>
        /\ Len(profile) = Len(kept)
        /\ \A j \in 1..Len(profile) :
              /\ profile[j][1] = values_fit[kept[j]][2]
              /\ FGt(profile[j][1], F(0))

\* a point is emitted whose wavelength lies beyond the last abscissa
C5_Witness ==
    /\ ProfileReturned
    /\ \E j \in 1..Len(profile) : FGt(profile[j][1], F(XMax))

\* the points (mean_i, fwhm_i) derived from find_fit's rows
Points ==
    [k \in 1..Len(values_fit) |->
        << values_fit[k][2], fwhm(values_fit[k][3]) >>]

\* the rows whose point satisfies mean > 0, fwhm > 0 and, with a limit,
\* fwhm < upper_lim
Admitted ==
    { k \in 1..Len(values_fit) :
        /\ FGt(Points[k][1], F(0))
        /\ FGt(Points[k][2], F(0))
        /\ upper_lim.given => FLt(Points[k][2], upper_lim.v) }

\* C6: the table inst_profile returns is exactly the subsequence, in
\* detection order and without gaps, of the points (mean_i, fwhm_i) with
\* mean_i > 0, fwhm_i > 0 and, when upper_lim is supplied, fwhm_i < upper_lim.
C6_ProfileIsFilteredSubsequence ==
    ProfileReturned =>
        /\ Len(profile) = Cardinality(Admitted)
        /\ \A j \in 1..Len(profile) : profile[j] = Points[Nth(Admitted, j)]

\* with a limit supplied, the first of two fits is dropped only because its
\* fwhm reaches the limit, and the second is emitted
C6_Witness ==
    /\ ProfileReturned
    /\ upper_lim.given
    /\ Len(values_fit) = 2
    /\ FGt(Points[1][1], F(0))
    /\ FLe(upper_lim.v, Points[1][2])
    /\ Admitted = { 2 }
    /\ Len(profile) = 1

\* C7: find_fit calls fit_gauss once per detected maximum, in detection
\* order, the i-th call seeded with (value, position, 0.1) of maximum i on
\* the full arrays, and returns one row per maximum; with no maximum it
\* returns an empty sequence and inst_profile an empty table.
C7_OneFitPerMaximum ==
    entry # "peakdet" =>
        /\ pc \notin { "ValueError", "TypeError" }
        /\ pc \in { "profile", "done" } =>
              /\ Len(calls) = Len(maxtab)
              /\ Len(values_fit) = Len(maxtab)
              /\ \A k \in 1..Len(calls) :
                    /\ calls[k].guess = << maxtab[k][2], maxtab[k][1], Milli(100) >>
                    /\ calls[k].x = x_arg.v
                    /\ calls[k].y = y_vector
        /\ (ProfileReturned /\ Len(maxtab) = 0) => profile = << >>

\* C8: the maxima and the minima are each in discovery order: the sample
\* indices of successive entries increase strictly, so their positions do
\* not decrease (and increase strictly when x does).
C8_ExtremaInDiscoveryOrder ==
    LET strict == \A k \in 1..(Len(x_vector) - 1) : x_vector[k] < x_vector[k + 1]
        Ordered(tab, log) ==
            /\ Len(tab) = Len(log)
            /\ \A k \in 1..Len(tab) : tab[k] = SampleAt(log[k].idx)
            /\ \A k \in 1..(Len(tab) - 1) :
                  /\ log[k].idx < log[k + 1].idx
                  /\ FLe(tab[k][1], tab[k + 1][1])
                  /\ strict => FLt(tab[k][1], tab[k + 1][1])
    IN  Ordered(maxtab, maxlog) /\ Ordered(mintab, minlog)

\* two maxima and two minima were reported on an x-axis with ties
C8_Witness ==
    /\ pc = "done"
    /\ Len(maxtab) = 2
    /\ Len(mintab) = 2
    /\ \E k \in 1..(Len(x_vector) - 1) : x_vector[k] = x_vector[k + 1]

\* C9: every reported maximum M is the largest sample since the running
\* maximum was last reset and is followed by a sample below M - delta;
\* hence every maximum exceeds the minimum reported next by more than
\* delta, and every minimum is lower than the maximum reported next by more
\* than delta.
C9_Hysteresis ==
    /\ Len(maxlog) = Len(maxtab)
    /\ \A k \in 1..Len(maxtab) :
          LET e == maxlog[k]
              M == y_vector[e.idx + 1]
          IN  /\ maxtab[k][2] = F(M)
              /\ e.from <= e.idx /\ e.idx < e.at
              /\ \A j \in e.from..e.at : y_vector[j + 1] <= M
              /\ y_vector[e.at + 1] < M - delta.v
    /\ \A k \in 1..Len(mintab) :
          /\ maxtab[k][2].v - mintab[k][2].v > 1000 * delta.v
          /\ k + 1 <= Len(maxtab) =>
                maxtab[k + 1][2].v - mintab[k][2].v > 1000 * delta.v

\* a maximum was confirmed only some samples after it was seen, and a
\* minimum and a second maximum followed
C9_Witness ==
    /\ pc = "done"
    /\ Len(maxtab) = 2
    /\ Len(mintab) >= 1
    /\ maxlog[1].at > maxlog[1].idx + 1

\* C10: maxima committed minus minima committed is 0 in look-for-max mode
\* and 1 in look-for-min mode; no sample commits two extrema; the extrema
\* alternate starting with a maximum, the k-th minimum lying strictly after
\* the k-th maximum and strictly before the (k+1)-th.
C10_Alternation ==
    /\ Len(maxtab) - Len(mintab) = IF lookformax THEN 0 ELSE 1
    /\ Len(maxlog) = Len(maxtab) /\ Len(minlog) = Len(mintab)
    /\ \A k \in 1..Len(maxlog), m \in 1..Len(minlog) : maxlog[k].at # minlog[m].at
    /\ \A k \in 1..Len(minlog) :
          /\ maxlog[k].at < minlog[k].at
          /\ maxlog[k].idx < minlog[k].idx
          /\ k + 1 <= Len(maxlog) =>
                /\ minlog[k].at < maxlog[k + 1].at
                /\ minlog[k].idx < maxlog[k + 1].idx

\* the scan ended in look-for-min mode after two maxima and one minimum
C10_Witness ==
    /\ pc = "done"
    /\ ~lookformax
    /\ Len(maxtab) = 2
    /\ Len(mintab) = 1

====
